---- MODULE Spec2Model ----
(***************************************************************************)
(* Coin collection store (local-storage strategy and remote document       *)
(* strategy), its change notification, and the dashboard state that        *)
(* consumes it.                                                            *)
(*                                                                         *)
(* A coin is a record.  The required fields id, name, purchasePrice,       *)
(* currentValue, roi and isSold are always in its domain; an optional      *)
(* field (grade, soldPrice, soldDate) is in the domain only when it is     *)
(* defined.  grade stands for the optional descriptive fields              *)
(* description / grade / mint / year, which the code treats alike.         *)
(* A date value carries its representation: a Date object, the ISO string  *)
(* JSON gives for it, or a Firestore Timestamp.                            *)
(***************************************************************************)
EXTENDS Integers, Sequences, FiniteSets, TLC

VARIABLES
    strategy,      \* which coinService module the build links: local or remote
    slot,          \* localStorage item 'apex_coins' (shared by the tabs)
    mockDatabase,  \* per tab: the module-level in-memory array
    clock,         \* last value Date.now() returned
    docs,          \* remote strategy: the 'coins' collection, id -> fields
    dirty,         \* remote strategy: listeners with a snapshot due
    subs,          \* subscriptions created so far, handle = index: the
                   \* callback, whether its interval or listener is live,
                   \* whether unsubscribe was called with the handle, and
                   \* the slot's text when the callback was last invoked
    tock,          \* phase of the polling timers (flips at every poll)
    coins,         \* DashboardContent's React state `coins`
    fired,         \* callback invocations made by the last step
    last,          \* the last store call: operation, arguments, outcome
    mounted,       \* per subscribing component: the handle its effect
                   \* holds, 0 when the component is not mounted
    cashReserves,  \* DashboardContent's React state `cashReserves`
    summary,       \* what PortfolioSummary computed when it last rendered
    aliased,       \* whether the array held as `coins` is the tab's own
                   \* mockDatabase array (the local store hands it out)
    activeTab      \* DashboardContent's React state `activeTab`

\* the state of the page's components
page == <<mounted, cashReserves, summary, activeTab>>

vars == <<strategy, slot, mockDatabase, clock, docs, dirty, subs, tock, coins, fired, last,
          mounted, cashReserves, summary, aliased, activeTab>>

----------------------------------------------------------------------------
(* Bounds of the model *)

MaxClock == 1      \* Date.now() ranges over 1..MaxClock
MaxCoins == 2      \* records an array or the collection holds at most
MaxSubs  == 2      \* subscriptions created in one run

Procs == {"tab1", "tab2"}   \* browser tabs sharing the storage slot
Self  == "tab1"             \* the tab whose subscribers are observed
Callbacks == {"Dashboard", "Summary"}
Ids == 0 .. MaxClock           \* 0: a record kept from an earlier session

----------------------------------------------------------------------------
(* Coins and their encodings *)

DateObj(t) == [repr |-> "Date", t |-> t]
IsoString(t) == [repr |-> "string", t |-> t]
Timestamp(t) == [repr |-> "Timestamp", t |-> t]
Null == [repr |-> "null", t |-> 0]

Graded == [name |-> "Morgan", purchasePrice |-> 1, currentValue |-> 1,
           roi |-> 0, isSold |-> FALSE, grade |-> "MS65"]
Sold == [name |-> "Morgan", purchasePrice |-> 1, currentValue |-> 1,
         roi |-> 0, isSold |-> TRUE, soldPrice |-> 2, soldDate |-> DateObj(1)]

\* what callers pass to add (a coin without id)
CoinInputs == {Graded, Sold}

WithField(r, k, v) == [f \in DOMAIN r \cup {k} |-> IF f = k THEN v ELSE r[f]]
WithoutField(r, k) == [f \in DOMAIN r \ {k} |-> r[f]]

\* what callers pass to update (a coin with an id)
CoinsWithId == {WithField(c, "id", i) : c \in CoinInputs, i \in Ids}

IdsOf(cs) == {cs[i].id : i \in DOMAIN cs}
Has(c, k) == k \in DOMAIN c

RECURSIVE Filter(_, _)
Filter(cs, id) ==
    IF cs = <<>> THEN <<>>
    ELSE IF Head(cs).id # id THEN <<Head(cs)>> \o Filter(Tail(cs), id)
         ELSE Filter(Tail(cs), id)

\* findIndex: the first index whose record has the id, 0 when there is none
FindIndex(cs, id) ==
    IF id \in IdsOf(cs)
    THEN CHOOSE i \in DOMAIN cs :
            cs[i].id = id /\ \A j \in 1 .. (i - 1) : cs[j].id # id
    ELSE 0

\* JSON.stringify of one coin: a Date becomes its ISO string, an undefined
\* field is left out (it is not in the domain to begin with)
StringifyCoin(c) ==
    [f \in DOMAIN c |->
        IF f = "soldDate" /\ c[f].repr = "Date" THEN IsoString(c[f].t) ELSE c[f]]

\* JSON.stringify of the array: the text kept in the slot
Stringify(cs) == [kind |-> "json", val |-> [i \in DOMAIN cs |-> StringifyCoin(cs[i])]]

Absent  == [kind |-> "absent", val |-> <<>>]
Garbage == [kind |-> "garbage", val |-> <<>>]

\* the module runs where there is no window (no localStorage at all)
NoWindow == [kind |-> "nowindow", val |-> <<>>]
HasWindow(text) == text.kind # "nowindow"

\* JSON.parse of a text: the objects the text describes (dates stay strings);
\* it throws on text that is no JSON
ParseThrows(text) == text.kind = "garbage"
Parse(text) == text.val

----------------------------------------------------------------------------
(* Local strategy: the store's functions as the code computes them.  Each  *)
(* yields the array the tab holds afterwards (db), the slot's text, whether *)
(* the call threw (fault) and what it returned (ret, a sequence).           *)

InitializeDatabase(text) ==
    IF ~HasWindow(text) THEN <<>>
    ELSE IF text.kind = "absent" THEN <<>>
    ELSE IF ParseThrows(text) THEN <<>>
    ELSE Parse(text)

\* localStorage.setItem either stores the text or throws (quota, disabled
\* storage); accept says which.  Without a window the save is skipped and
\* nothing is thrown.
SaveToLocalStorage(text, cs, accept) ==
    IF HasWindow(text) /\ accept THEN Stringify(cs) ELSE text

SaveThrows(text, accept) == HasWindow(text) /\ ~accept

GetAllCoinsLocal(db, text) ==
    LET fresh == InitializeDatabase(text)
    IN  [db |-> fresh, slot |-> text, fault |-> FALSE, ret |-> fresh]

\* addCoin that saves the array before it pushes the new coin
AddCoinLocalSavesFirst(db, text, coin, now, accept) ==
    LET newCoin == WithField(coin, "id", now)
    IN  [db |-> Append(db, newCoin),
         slot |-> SaveToLocalStorage(text, db, accept),
         fault |-> SaveThrows(text, accept),
         ret |-> IF SaveThrows(text, accept) THEN <<>> ELSE <<newCoin>>]

AddCoinLocal(db, text, coin, now, accept) ==
    LET newCoin == WithField(coin, "id", now)
        pushed  == Append(db, newCoin)
    IN  [db |-> pushed,
         slot |-> SaveToLocalStorage(text, pushed, accept),
         fault |-> SaveThrows(text, accept),
         ret |-> IF SaveThrows(text, accept) THEN <<>> ELSE <<newCoin>>]

\* updateCoin that adds the record when no record has the identifier
UpdateCoinLocalUpsert(db, text, coin, accept) ==
    LET index == FindIndex(db, coin.id)
        replaced == IF index # 0 THEN [db EXCEPT ![index] = coin]
                    ELSE Append(db, coin)
    IN  [db |-> replaced,
         slot |-> SaveToLocalStorage(text, replaced, accept),
         fault |-> SaveThrows(text, accept),
         ret |-> IF SaveThrows(text, accept) THEN <<>> ELSE <<coin>>]

UpdateCoinLocal(db, text, coin, accept) ==
    LET index == FindIndex(db, coin.id)
        replaced == [db EXCEPT ![index] = coin]
    IN  IF index # 0
        THEN [db |-> replaced,
              slot |-> SaveToLocalStorage(text, replaced, accept),
              fault |-> SaveThrows(text, accept),
              ret |-> IF SaveThrows(text, accept) THEN <<>> ELSE <<coin>>]
        ELSE [db |-> db, slot |-> text, fault |-> FALSE, ret |-> <<coin>>]

DeleteCoinLocal(db, text, coinId, accept) ==
    LET kept == Filter(db, coinId)
    IN  [db |-> kept,
         slot |-> SaveToLocalStorage(text, kept, accept),
         fault |-> SaveThrows(text, accept),
         ret |-> <<>>]

\* the polling callback's test: the slot's content differs from the array
PollDiffers(db, text) ==
    Stringify(InitializeDatabase(text)) # Stringify(db)

----------------------------------------------------------------------------
(* Remote strategy: the collection is a function from document id to the   *)
(* document's fields.  Each function yields the collection afterwards,     *)
(* whether the call threw and what it returned.  ok says whether the       *)
(* backend served the request.                                             *)

NoDocs == [i \in {} |-> Graded]

\* the data addDoc / updateDoc are given: the coin's own fields, soldDate
\* always written, as a Timestamp or as null
ToStored(coin) ==
    WithField(WithoutField(coin, "id"), "soldDate",
              IF Has(coin, "soldDate") THEN Timestamp(coin.soldDate.t) ELSE Null)

ConvertToCoin(id, data) ==
    LET required == [id |-> id, name |-> data.name,
                     purchasePrice |-> data.purchasePrice,
                     currentValue |-> data.currentValue, roi |-> data.roi,
                     isSold |-> (Has(data, "isSold") /\ data.isSold)]
        optional == {f \in {"grade", "soldPrice"} : Has(data, f)}
                    \cup {f \in {"soldDate"} :
                            Has(data, f) /\ data[f].repr = "Timestamp"}
    IN  [f \in DOMAIN required \cup optional |->
            IF f \in DOMAIN required THEN required[f]
            ELSE IF f = "soldDate" THEN DateObj(data[f].t)
            ELSE data[f]]

\* querySnapshot.docs.map(convertToCoin): documents come in id order
RECURSIVE ConvertAll(_)
ConvertAll(ds) ==
    IF DOMAIN ds = {} THEN <<>>
    ELSE LET lo == CHOOSE i \in DOMAIN ds : \A j \in DOMAIN ds : i <= j
         IN  <<ConvertToCoin(lo, ds[lo])>>
             \o ConvertAll([i \in DOMAIN ds \ {lo} |-> ds[i]])

\* updateDoc writes the fields it is given and keeps the document's others
UpdateDoc(old, data) ==
    [f \in DOMAIN old \cup DOMAIN data |->
        IF f \in DOMAIN data THEN data[f] ELSE old[f]]

\* getAllCoins without its catch: the read's failure reaches the caller
GetAllCoinsRemoteRethrows(ds, ok) ==
    [docs |-> ds, fault |-> ~ok, ret |-> IF ok THEN ConvertAll(ds) ELSE <<>>]

GetAllCoinsRemote(ds, ok) ==
    [docs |-> ds, fault |-> FALSE, ret |-> IF ok THEN ConvertAll(ds) ELSE <<>>]

AddCoinRemote(ds, coin, newId, ok) ==
    IF ok
    THEN [docs |-> [i \in DOMAIN ds \cup {newId} |->
                      IF i = newId THEN ToStored(coin) ELSE ds[i]],
          fault |-> FALSE,
          ret |-> <<WithField(coin, "id", newId)>>]
    ELSE [docs |-> ds, fault |-> TRUE, ret |-> <<>>]

UpdateCoinRemote(ds, coin, ok) ==
    IF ok /\ coin.id \in DOMAIN ds
    THEN [docs |-> [ds EXCEPT ![coin.id] = UpdateDoc(ds[coin.id], ToStored(coin))],
          fault |-> FALSE,
          ret |-> <<coin>>]
    ELSE [docs |-> ds, fault |-> TRUE, ret |-> <<>>]

DeleteCoinRemote(ds, coinId, ok) ==
    IF ok
    THEN [docs |-> [i \in DOMAIN ds \ {coinId} |-> ds[i]],
          fault |-> FALSE, ret |-> <<>>]
    ELSE [docs |-> ds, fault |-> TRUE, ret |-> <<>>]

----------------------------------------------------------------------------
(* Callback invocation.  The Dashboard callback is setCoins; the Summary   *)
(* callback only logs.                                                     *)

Invoke(h, cb, payload) ==
    /\ fired' = <<[h |-> h, cb |-> cb, coins |-> payload]>>
    /\ coins' = IF cb = "Dashboard" THEN payload ELSE coins

NoInvoke == fired' = <<>> /\ UNCHANGED coins

\* The local store hands out its array itself: getAllCoins returns
\* mockDatabase and the subscription passes mockDatabase to the callback, so
\* after setCoins the dashboard's `coins` is that array.  A push or an
\* assignment to an element then shows in `coins`; an assignment to
\* mockDatabase (getAllCoins, deleteCoin, a firing poll) leaves `coins` with
\* the array it had.
MutatedInPlace(p, db) ==
    IF p = Self /\ aliased THEN coins' = db ELSE UNCHANGED coins

Reassigned(p) == aliased' = (aliased /\ p # Self)

\* served: whether the storage or backend served the call's request
Called(op, p, id, served, r) ==
    last' = [op |-> op, p |-> p, id |-> id, served |-> served,
             fault |-> r.fault, ret |-> r.ret]

NoResult == [fault |-> FALSE, ret |-> <<>>]

LiveSubs == {h \in DOMAIN subs : subs[h].live}

----------------------------------------------------------------------------
(* Store calls, local strategy *)

LocalApply(p, r) ==
    /\ strategy = "local"
    /\ mockDatabase' = [mockDatabase EXCEPT ![p] = r.db]
    /\ slot' = r.slot
    /\ fired' = <<>>
    /\ UNCHANGED <<page, strategy, docs, dirty, subs, tock>>

LocalGetAll(p) ==
    LET r == GetAllCoinsLocal(mockDatabase[p], slot)
    IN  /\ LocalApply(p, r)
        /\ Reassigned(p)
        /\ Called("getAll", p, 0, TRUE, r)
        /\ UNCHANGED <<clock, coins>>

LocalAdd(p, coin, now, accept) ==
    LET r == AddCoinLocal(mockDatabase[p], slot, coin, now, accept)
    IN  /\ Len(mockDatabase[p]) < MaxCoins
        /\ now >= clock
        /\ clock' = now
        /\ LocalApply(p, r)
        /\ MutatedInPlace(p, r.db)
        /\ Called("add", p, now, ~r.fault, r)
        /\ UNCHANGED aliased

LocalUpdate(p, coin, accept) ==
    LET r == UpdateCoinLocal(mockDatabase[p], slot, coin, accept)
    IN  /\ LocalApply(p, r)
        /\ MutatedInPlace(p, r.db)
        /\ Called("update", p, coin.id, ~r.fault, r)
        /\ UNCHANGED <<clock, aliased>>

LocalDelete(p, coinId, accept) ==
    LET r == DeleteCoinLocal(mockDatabase[p], slot, coinId, accept)
    IN  /\ LocalApply(p, r)
        /\ Reassigned(p)
        /\ Called("delete", p, coinId, ~r.fault, r)
        /\ UNCHANGED <<clock, coins>>

----------------------------------------------------------------------------
(* Store calls, remote strategy.  A change of the collection leaves a      *)
(* snapshot due for every listener.                                        *)

RemoteApply(r) ==
    /\ strategy = "remote"
    /\ docs' = r.docs
    /\ dirty' = IF r.docs # docs THEN LiveSubs ELSE dirty
    /\ NoInvoke
    /\ UNCHANGED <<page, strategy, slot, mockDatabase, clock, subs, tock, aliased>>

RemoteGetAll(ok) ==
    LET r == GetAllCoinsRemote(docs, ok)
    IN  /\ RemoteApply(r)
        /\ Called("getAll", Self, 0, ok, r)

RemoteAdd(coin, newId, ok) ==
    LET r == AddCoinRemote(docs, coin, newId, ok)
    IN  /\ Cardinality(DOMAIN docs) < MaxCoins
        /\ newId \notin DOMAIN docs
        /\ RemoteApply(r)
        /\ Called("add", Self, newId, ok, r)

RemoteUpdate(coin, ok) ==
    LET r == UpdateCoinRemote(docs, coin, ok)
    IN  /\ RemoteApply(r)
        /\ Called("update", Self, coin.id, ok, r)

RemoteDelete(coinId, ok) ==
    LET r == DeleteCoinRemote(docs, coinId, ok)
    IN  /\ RemoteApply(r)
        /\ Called("delete", Self, coinId, ok, r)

----------------------------------------------------------------------------
(* Subscriptions.  A handle is the index of its subscription in subs;      *)
(* handle 0 stands for an empty (null) handle.                             *)

NewSub(cb) == [cb |-> cb, live |-> TRUE, cancelled |-> FALSE, seen |-> slot]

\* clearInterval(intervalId), or the unsubscribe function onSnapshot gave
StopNoOp(s) == s
Stop(s) == [s EXCEPT !.live = FALSE]

\* unsubscribeFromCoinsUpdates(subscription) in both modules: an empty
\* handle is skipped
Unsubscribed(h) ==
    [i \in DOMAIN subs |->
        IF i = h THEN [Stop(subs[i]) EXCEPT !.cancelled = TRUE] ELSE subs[i]]

\* local subscribeToCoinsUpdates: the callback gets the tab's array at once,
\* and an interval is started
LocalSubscribe(cb) ==
    /\ strategy = "local"
    /\ Len(subs) < MaxSubs
    /\ subs' = Append(subs, NewSub(cb))
    /\ Invoke(Len(subs) + 1, cb, mockDatabase[Self])
    /\ aliased' = (aliased \/ cb = "Dashboard")
    /\ Called("subscribe", Self, Len(subs) + 1, TRUE, NoResult)
    /\ UNCHANGED <<page, strategy, slot, mockDatabase, clock, docs, dirty, tock>>

\* one firing of the interval of subscription h
LocalPoll(h) ==
    /\ strategy = "local"
    /\ h \in DOMAIN subs
    /\ subs[h].live
    /\ tock' = ~tock
    /\ IF PollDiffers(mockDatabase[Self], slot)
       THEN /\ mockDatabase' =
                  [mockDatabase EXCEPT ![Self] = InitializeDatabase(slot)]
            /\ Invoke(h, subs[h].cb, InitializeDatabase(slot))
            /\ aliased' = (subs[h].cb = "Dashboard")
            /\ subs' = [subs EXCEPT ![h].seen = slot]
       ELSE /\ UNCHANGED <<mockDatabase, subs, aliased>>
            /\ NoInvoke
    /\ Called("poll", Self, h, TRUE, NoResult)
    /\ UNCHANGED <<page, strategy, slot, clock, docs, dirty>>

LocalUnsubscribe(h) ==
    /\ strategy = "local"
    /\ h \in 0 .. Len(subs)
    /\ subs' = Unsubscribed(h)
    /\ NoInvoke
    /\ Called("unsubscribe", Self, h, TRUE, NoResult)
    /\ UNCHANGED <<page, strategy, slot, mockDatabase, clock, docs, dirty, tock, aliased>>

\* remote subscribeToCoinsUpdates: onSnapshot attaches a listener; its first
\* snapshot is delivered later
RemoteSubscribe(cb) ==
    /\ strategy = "remote"
    /\ Len(subs) < MaxSubs
    /\ subs' = Append(subs, NewSub(cb))
    /\ dirty' = dirty \cup {Len(subs) + 1}
    /\ NoInvoke
    /\ Called("subscribe", Self, Len(subs) + 1, TRUE, NoResult)
    /\ UNCHANGED <<page, strategy, slot, mockDatabase, clock, docs, tock, aliased>>

\* the listener's callback runs on a snapshot of the collection
RemoteSnapshot(h) ==
    /\ strategy = "remote"
    /\ h \in DOMAIN subs
    /\ subs[h].live
    /\ h \in dirty
    /\ dirty' = dirty \ {h}
    /\ Invoke(h, subs[h].cb, ConvertAll(docs))
    /\ Called("snapshot", Self, h, TRUE, NoResult)
    /\ UNCHANGED <<page, strategy, slot, mockDatabase, clock, docs, subs, tock, aliased>>

RemoteUnsubscribe(h) ==
    /\ strategy = "remote"
    /\ h \in 0 .. Len(subs)
    /\ subs' = Unsubscribed(h)
    /\ dirty' = dirty \ {h}
    /\ NoInvoke
    /\ Called("unsubscribe", Self, h, TRUE, NoResult)
    /\ UNCHANGED <<page, strategy, slot, mockDatabase, clock, docs, tock, aliased>>

----------------------------------------------------------------------------
(* Mounting and unmounting of the subscribing components.  Each subscribes *)
(* in an effect that runs when it mounts and whose cleanup, run when it    *)
(* unmounts, unsubscribes the handle the effect got.                       *)

\* the effect: DashboardContent calls refreshData() and subscribes with
\* setCoins; PortfolioSummary subscribes with a callback that logs.  In the
\* local strategy getAllCoins and the subscription's first callback run at
\* once; in the remote strategy the read and the first snapshot come later.
Mount(cb) ==
    LET h == Len(subs) + 1
        fresh == IF cb = "Dashboard" THEN InitializeDatabase(slot)
                 ELSE mockDatabase[Self]
    IN  /\ mounted[cb] = 0
        /\ Len(subs) < MaxSubs
        /\ mounted' = [mounted EXCEPT ![cb] = h]
        /\ subs' = Append(subs, NewSub(cb))
        /\ IF strategy = "local"
           THEN /\ mockDatabase' = [mockDatabase EXCEPT ![Self] = fresh]
                /\ Invoke(h, cb, fresh)
                /\ aliased' = (aliased \/ cb = "Dashboard")
                /\ UNCHANGED dirty
           ELSE /\ dirty' = dirty \cup {h}
                /\ NoInvoke
                /\ UNCHANGED <<mockDatabase, aliased>>
        /\ Called("mount", Self, h, TRUE, NoResult)
        /\ UNCHANGED <<strategy, slot, clock, docs, tock, cashReserves, summary,
                       activeTab>>

\* an unmount that runs no cleanup
UnmountLeaks(cb) ==
    /\ mounted[cb] # 0
    /\ mounted' = [mounted EXCEPT ![cb] = 0]
    /\ NoInvoke
    /\ Called("unmount", Self, mounted[cb], TRUE, NoResult)
    /\ UNCHANGED <<strategy, slot, mockDatabase, clock, docs, dirty, subs, tock,
                   cashReserves, summary, aliased, activeTab>>

\* the cleanup: unsubscribeFromCoinsUpdates(subscription)
Unmount(cb) ==
    /\ mounted[cb] # 0
    /\ mounted' = [mounted EXCEPT ![cb] = 0]
    /\ subs' = Unsubscribed(mounted[cb])
    /\ dirty' = dirty \ {mounted[cb]}
    /\ NoInvoke
    /\ Called("unmount", Self, mounted[cb], TRUE, NoResult)
    /\ UNCHANGED <<strategy, slot, mockDatabase, clock, docs, tock,
                   cashReserves, summary, aliased, activeTab>>

----------------------------------------------------------------------------
(* DashboardContent.  Its subscription callback is setCoins (see Invoke).  *)

\* refreshData: setCoins(await getAllCoins())
RefreshData(ok) ==
    LET r == IF strategy = "local"
             THEN GetAllCoinsLocal(mockDatabase[Self], slot)
             ELSE GetAllCoinsRemote(docs, ok)
    IN  /\ strategy = "local" => ok
        /\ mockDatabase' = IF strategy = "local"
                           THEN [mockDatabase EXCEPT ![Self] = r.db]
                           ELSE mockDatabase
        /\ coins' = r.ret
        /\ aliased' = (strategy = "local")
        /\ fired' = <<>>
        /\ Called("getAll", Self, 0, ok, r)
        /\ UNCHANGED <<page, strategy, slot, clock, docs, dirty, subs, tock>>

\* what the holdings tab's onMarkAsSold puts in place of the coin
MarkedSold(coin, soldPrice, now) ==
    WithField(WithField(WithField(coin, "isSold", TRUE),
                        "soldPrice", soldPrice),
              "soldDate", DateObj(now))

SoldPrices == {2}

\* the holdings tab's onMarkAsSold(coinId, soldPrice); the tab lists the
\* coins not sold
OnMarkAsSold(coinId, soldPrice) ==
    LET coinIndex == FindIndex(coins, coinId)
        sold == MarkedSold(coins[coinIndex], soldPrice, clock)
    IN  /\ coinIndex # 0
        /\ ~coins[coinIndex].isSold
        /\ coins' = [coins EXCEPT ![coinIndex] = sold]
        /\ aliased' = FALSE
        /\ fired' = <<>>
        /\ Called("markSold", Self, coinId, TRUE,
                  [fault |-> FALSE, ret |-> <<sold>>])
        /\ UNCHANGED <<page, strategy, slot, mockDatabase, clock, docs, dirty, subs, tock>>

\* what handleMarkAsSold puts in place of the coin: the disposition fields
\* set from the form's values, or undefined when the coin is marked unsold
Remarked(coin, isSold, soldPrice, soldDate) ==
    IF isSold
    THEN WithField(WithField(WithField(coin, "isSold", TRUE),
                             "soldPrice", soldPrice),
                   "soldDate", soldDate)
    ELSE WithoutField(WithoutField(WithField(coin, "isSold", FALSE),
                                   "soldPrice"),
                      "soldDate")

\* handleMarkAsSold(values): setCoins, then updateCoin; a failure of
\* updateCoin is caught and reported.  In the remote strategy updateDoc
\* refuses a field whose value is undefined, as soldPrice and soldDate are
\* when the coin is marked unsold.
HandleMarkAsSold(coinId, isSold, soldPrice, ok) ==
    LET coinIndex == FindIndex(coins, coinId)
        updated == Remarked(coins[coinIndex], isSold, soldPrice, DateObj(clock))
        l == UpdateCoinLocal(mockDatabase[Self], slot, updated, ok)
        r == UpdateCoinRemote(docs, updated, ok /\ isSold)
    IN  /\ coinIndex # 0
        /\ coins' = [coins EXCEPT ![coinIndex] = updated]
        /\ aliased' = FALSE
        /\ fired' = <<>>
        /\ IF strategy = "local"
           THEN /\ mockDatabase' = [mockDatabase EXCEPT ![Self] = l.db]
                /\ slot' = l.slot
                /\ Called("handleMarkAsSold", Self, coinId, ~l.fault, l)
                /\ UNCHANGED <<docs, dirty>>
           ELSE /\ docs' = r.docs
                /\ dirty' = IF r.docs # docs THEN LiveSubs ELSE dirty
                /\ Called("handleMarkAsSold", Self, coinId, ~r.fault, r)
                /\ UNCHANGED <<mockDatabase, slot>>
        /\ UNCHANGED <<page, strategy, clock, subs, tock>>

\* the tabs of the dashboard; the user selects one (onValueChange)
Tabs == {"performance", "holdings", "transactions", "settings"}

SelectTab(tab) ==
    /\ tab # activeTab
    /\ activeTab' = tab
    /\ UNCHANGED <<strategy, slot, mockDatabase, clock, docs, dirty, subs, tock,
                   coins, fired, last, mounted, cashReserves, summary, aliased>>

NotSold(coin) == ~coin.isSold
IsSold(coin) == coin.isSold

\* the coins the active tab lists: those not sold under "holdings", those
\* sold under "transactions"
Listed ==
    IF activeTab = "holdings" THEN SelectSeq(coins, NotSold)
    ELSE IF activeTab = "transactions" THEN SelectSeq(coins, IsSold)
    ELSE <<>>

\* what a handler of the dashboard leaves in `last`: the store call it made
\* (served or not), how many store calls it issued, and whether a fault
\* left the handler
Handled(op, id, served, ret, calls, escaped) ==
    last' = [op |-> op, p |-> Self, id |-> id, served |-> served,
             fault |-> escaped, ret |-> ret, calls |-> calls]

\* what the upload form submits: a coin not sold, with or without the
\* optional descriptive fields
Plain == WithoutField(Graded, "grade")
NewCoinInputs == {Graded, Plain}

\* handleNewCoin(data): addCoin, then setCoins(prevCoins => [...prevCoins,
\* newCoin]) and setActiveTab("holdings"); a failure of addCoin is caught
\* and reported.  Local strategy: the identifier is Date.now(), and addCoin
\* pushes onto mockDatabase before it saves, so the push shows in `coins`
\* when that is the same array.  Remote strategy: addDoc refuses a field
\* whose value is undefined, as the optional fields are when the form left
\* them out.
HandleNewCoin(coin, newId, ok) ==
    LET l == AddCoinLocal(mockDatabase[Self], slot, coin, newId, ok)
        r == AddCoinRemote(docs, coin, newId, ok /\ Has(coin, "grade"))
        pushed == IF aliased THEN l.db ELSE coins
    IN  /\ activeTab = "settings"
        /\ Len(coins) < MaxCoins
        /\ fired' = <<>>
        /\ IF strategy = "local"
           THEN /\ Len(mockDatabase[Self]) < MaxCoins
                /\ newId >= clock /\ newId >= 1
                /\ clock' = newId
                /\ mockDatabase' = [mockDatabase EXCEPT ![Self] = l.db]
                /\ slot' = l.slot
                /\ IF l.fault
                   THEN /\ coins' = pushed
                        /\ UNCHANGED <<aliased, activeTab>>
                   ELSE /\ coins' = Append(pushed, l.ret[1])
                        /\ aliased' = FALSE
                        /\ activeTab' = "holdings"
                /\ Handled("handleNewCoin", newId, ~l.fault, l.ret, 1, FALSE)
                /\ UNCHANGED <<docs, dirty>>
           ELSE /\ Cardinality(DOMAIN docs) < MaxCoins
                /\ newId \notin DOMAIN docs
                /\ docs' = r.docs
                /\ dirty' = IF r.docs # docs THEN LiveSubs ELSE dirty
                /\ IF r.fault
                   THEN UNCHANGED <<coins, activeTab>>
                   ELSE /\ coins' = Append(coins, r.ret[1])
                        /\ activeTab' = "holdings"
                /\ Handled("handleNewCoin", newId, ~r.fault, r.ret, 1, FALSE)
                /\ UNCHANGED <<mockDatabase, slot, clock, aliased>>
        /\ UNCHANGED <<strategy, subs, tock, mounted, cashReserves, summary>>

\* handleDeleteCoin(coinId), reached from a coin the active tab lists:
\* deleteCoin, then setCoins(prevCoins => prevCoins.filter(...)); a failure
\* of deleteCoin is caught and reported.  Local strategy: deleteCoin assigns
\* the filtered array to mockDatabase before it saves.
HandleDeleteCoin(coinId, ok) ==
    LET l == DeleteCoinLocal(mockDatabase[Self], slot, coinId, ok)
        r == DeleteCoinRemote(docs, coinId, ok)
        fault == IF strategy = "local" THEN l.fault ELSE r.fault
    IN  /\ coinId \in IdsOf(Listed)
        /\ fired' = <<>>
        /\ coins' = IF fault THEN coins ELSE Filter(coins, coinId)
        /\ aliased' = FALSE
        /\ IF strategy = "local"
           THEN /\ mockDatabase' = [mockDatabase EXCEPT ![Self] = l.db]
                /\ slot' = l.slot
                /\ UNCHANGED <<docs, dirty>>
           ELSE /\ docs' = r.docs
                /\ dirty' = IF r.docs # docs THEN LiveSubs ELSE dirty
                /\ UNCHANGED <<mockDatabase, slot>>
        /\ Handled("handleDeleteCoin", coinId, ~fault, <<>>, 1, FALSE)
        /\ UNCHANGED <<page, strategy, clock, subs, tock>>

----------------------------------------------------------------------------
(* JavaScript numbers, as far as the summary needs them: a finite value is *)
(* a fraction n/d in lowest terms (d > 0), and a division by zero gives    *)
(* Infinity, -Infinity or NaN.  Rounding of doubles is left out: the       *)
(* arithmetic is exact.                                                    *)

RECURSIVE GCD(_, _)
GCD(a, b) == IF b = 0 THEN a ELSE GCD(b, a % b)

Abs(n) == IF n < 0 THEN -n ELSE n
Sign(n) == IF n < 0 THEN -1 ELSE IF n > 0 THEN 1 ELSE 0

NaN == [k |-> "nan", n |-> 0, d |-> 1]
Infinity(sign) == [k |-> "inf", n |-> sign, d |-> 1]

\* the fraction n/d, d > 0, in lowest terms
Fin(n, d) ==
    LET g == GCD(Abs(n), d)
    IN  [k |-> "fin", n |-> n \div g, d |-> d \div g]

Num(n) == Fin(n, 1)

IsNumber(a) == a.k = "fin"

NumAdd(a, b) ==
    IF a.k = "nan" \/ b.k = "nan" THEN NaN
    ELSE IF a.k = "inf" /\ b.k = "inf" THEN (IF a.n = b.n THEN a ELSE NaN)
    ELSE IF a.k = "inf" THEN a
    ELSE IF b.k = "inf" THEN b
    ELSE Fin(a.n * b.d + b.n * a.d, a.d * b.d)

NumNeg(a) == IF a.k = "nan" THEN NaN ELSE [a EXCEPT !.n = -a.n]

NumSub(a, b) == NumAdd(a, NumNeg(b))

NumMul(a, b) ==
    IF a.k = "nan" \/ b.k = "nan" THEN NaN
    ELSE IF a.k = "inf" \/ b.k = "inf"
         THEN (IF a.n = 0 \/ b.n = 0 THEN NaN
               ELSE Infinity(Sign(a.n) * Sign(b.n)))
    ELSE Fin(a.n * b.n, a.d * b.d)

NumDiv(a, b) ==
    IF a.k = "nan" \/ b.k = "nan" THEN NaN
    ELSE IF a.k = "inf"
         THEN (IF b.k = "inf" THEN NaN
               ELSE Infinity(IF b.n < 0 THEN -a.n ELSE a.n))
    ELSE IF b.k = "inf" THEN Num(0)
    ELSE IF b.n = 0
         THEN (IF a.n = 0 THEN NaN ELSE Infinity(Sign(a.n)))
    ELSE Fin(a.n * b.d * Sign(b.n), a.d * Abs(b.n))

\* a > 0
NumPositive(a) == a.k # "nan" /\ a.n > 0

\* a number used as a condition: 0 and NaN count as false
Truthy(a) == a.k # "nan" /\ a.n # 0

\* reduce((sum, x) => sum + x, 0) over a sequence of numbers
RECURSIVE NumSum(_)
NumSum(xs) == IF xs = <<>> THEN Num(0) ELSE NumAdd(NumSum(SubSeq(xs, 1, Len(xs) - 1)), xs[Len(xs)])

----------------------------------------------------------------------------
(* PortfolioSummary: what a render computes from its props.                *)

IsActive(coin) == ~coin.isSold

\* coin.isSold && coin.soldPrice
IsSoldWithPrice(coin) ==
    coin.isSold /\ Has(coin, "soldPrice") /\ Truthy(Num(coin.soldPrice))

CurrentValues(cs) == [i \in DOMAIN cs |-> Num(cs[i].currentValue)]
PurchasePrices(cs) == [i \in DOMAIN cs |-> Num(cs[i].purchasePrice)]

\* ((coin.soldPrice - coin.purchasePrice) / coin.purchasePrice) * 100
CoinROI(coin) ==
    NumMul(NumDiv(NumSub(Num(coin.soldPrice), Num(coin.purchasePrice)),
                  Num(coin.purchasePrice)),
           Num(100))

\* activeCoinsROI without the test for an empty list
ActiveCoinsROIUnguarded(activeCoins) ==
    NumDiv(NumSum([i \in DOMAIN activeCoins |->
                      NumMul(Num(activeCoins[i].roi),
                             Num(activeCoins[i].currentValue))]),
           NumSum(CurrentValues(activeCoins)))

ActiveCoinsROI(activeCoins) ==
    IF Len(activeCoins) > 0
    THEN NumDiv(NumSum([i \in DOMAIN activeCoins |->
                           NumMul(Num(activeCoins[i].roi),
                                  Num(activeCoins[i].currentValue))]),
                NumSum(CurrentValues(activeCoins)))
    ELSE Num(0)

SoldCoinsROI(soldCoins) ==
    IF Len(soldCoins) > 0
    THEN NumDiv(NumSum([i \in DOMAIN soldCoins |->
                           NumMul(CoinROI(soldCoins[i]),
                                  Num(soldCoins[i].purchasePrice))]),
                NumSum(PurchasePrices(soldCoins)))
    ELSE Num(0)

Summarize(cs, cash) ==
    LET activeCoins == SelectSeq(cs, IsActive)
        soldCoins == SelectSeq(cs, IsSoldWithPrice)
        activeCoinsValue == NumSum(CurrentValues(activeCoins))
        soldCoinsProfit ==
            NumSum([i \in DOMAIN soldCoins |->
                       NumSub(Num(soldCoins[i].soldPrice),
                              Num(soldCoins[i].purchasePrice))])
        activeCoinsROI == ActiveCoinsROI(activeCoins)
        soldCoinsROI == SoldCoinsROI(soldCoins)
        totalActiveValue == NumSum(CurrentValues(activeCoins))
        totalSoldValue == NumSum(PurchasePrices(soldCoins))
        totalInvestmentValue == NumAdd(totalActiveValue, totalSoldValue)
    IN  [rendered |-> TRUE,
         coins |-> cs,
         cashReserves |-> cash,
         activeCoins |-> activeCoins,
         soldCoins |-> soldCoins,
         activeCoinsValue |-> activeCoinsValue,
         soldCoinsProfit |-> soldCoinsProfit,
         totalValue |-> NumAdd(NumAdd(Num(cash), activeCoinsValue), soldCoinsProfit),
         activeCoinsROI |-> activeCoinsROI,
         soldCoinsROI |-> soldCoinsROI,
         totalROI |->
             IF NumPositive(totalInvestmentValue)
             THEN NumDiv(NumAdd(NumMul(activeCoinsROI, totalActiveValue),
                                NumMul(soldCoinsROI, totalSoldValue)),
                         totalInvestmentValue)
             ELSE Num(0)]

\* PortfolioSummary renders with the props DashboardContent gives it
RenderSummary ==
    /\ summary' = Summarize(coins, cashReserves)
    /\ UNCHANGED <<strategy, slot, mockDatabase, clock, docs, dirty, subs, tock,
                   coins, fired, last, mounted, cashReserves, aliased, activeTab>>

\* the amounts the user enters in the cash reserves dialog
CashAmounts == {0, 7}

\* handleUpdateCashReserves of PortfolioSummary (a number not below 0 is
\* passed on) and of DashboardContent (setCashReserves)
HandleUpdateCashReserves(newAmount) ==
    /\ newAmount >= 0
    /\ cashReserves' = newAmount
    /\ UNCHANGED <<strategy, slot, mockDatabase, clock, docs, dirty, subs, tock,
                   coins, fired, last, mounted, summary, aliased, activeTab>>

\* What the dialog's field holds when the user confirms.  The field is an
\* input of type "number": its value is the text of a number, or the empty
\* text when what was typed is not a number.
NumberEntry(n) == [kind |-> "number", n |-> n]
EmptyEntry == [kind |-> "empty", n |-> 0]
CashEntries == {NumberEntry(n) : n \in {-1, 0, 7}} \cup {EmptyEntry}

\* parseFloat of the field's value
ParseFloat(entry) == IF entry.kind = "number" THEN Num(entry.n) ELSE NaN

\* the dialog's handler without the test newAmount >= 0
SubmitCashReservesUnchecked(entry) ==
    LET newAmount == ParseFloat(entry)
        passed == newAmount.k # "nan"
    IN  /\ cashReserves' = IF passed THEN newAmount.n ELSE cashReserves
        /\ fired' = <<>>
        /\ Handled("updateCash", 0, passed, <<>>, 0, FALSE)
        /\ UNCHANGED <<strategy, slot, mockDatabase, clock, docs, dirty, subs, tock,
                       coins, mounted, summary, aliased, activeTab>>

\* The dialog's confirm button: PortfolioSummary's handleUpdateCashReserves
\* parses the field and, when the result is a number not below 0, calls
\* onUpdateCashReserves, which is DashboardContent's
\* handleUpdateCashReserves (setCashReserves); otherwise it does nothing.
SubmitCashReserves(entry) ==
    LET newAmount == ParseFloat(entry)
        passed == newAmount.k # "nan" /\ newAmount.n >= 0
    IN  /\ cashReserves' = IF passed THEN newAmount.n ELSE cashReserves
        /\ fired' = <<>>
        /\ Handled("updateCash", 0, passed, <<>>, 0, FALSE)
        /\ UNCHANGED <<strategy, slot, mockDatabase, clock, docs, dirty, subs, tock,
                       coins, mounted, summary, aliased, activeTab>>

----------------------------------------------------------------------------
(* Initial states: the tabs have loaded the module, so each holds what the *)
(* slot decoded to.  A record kept from an earlier session has id 0.       *)

Kept == WithField(Graded, "id", 0)

InitialCash == 50000
NoSummary == [rendered |-> FALSE]

InitSlots == {NoWindow, Absent, Garbage, Stringify(<<>>), Stringify(<<Kept>>)}
InitDocs == {NoDocs, [i \in {0} |-> ToStored(Kept)]}

Init ==
    /\ strategy \in {"local", "remote"}
    /\ slot \in IF strategy = "local" THEN InitSlots ELSE {Absent}
    /\ mockDatabase = [p \in Procs |-> InitializeDatabase(slot)]
    /\ clock = 1
    /\ docs \in IF strategy = "remote" THEN InitDocs ELSE {NoDocs}
    /\ dirty = {}
    /\ subs = <<>>
    /\ tock = FALSE
    /\ coins = <<>>
    /\ fired = <<>>
    /\ last = [op |-> "none", p |-> Self, id |-> 0, served |-> TRUE,
               fault |-> FALSE, ret |-> <<>>]
    /\ mounted = [cb \in Callbacks |-> 0]
    /\ cashReserves = InitialCash
    /\ summary = NoSummary
    /\ aliased = FALSE
    /\ activeTab = "performance"

\* another tab of the same application adds a coin
OtherTabAdd(now) == LocalAdd("tab2", Graded, now, TRUE)

(* The store's four calls, in both strategies.                             *)
NextStore ==
    \/ LocalGetAll(Self)
    \/ \E coin \in CoinInputs, now \in 1 .. MaxClock, accept \in BOOLEAN :
          LocalAdd(Self, coin, now, accept)
    \/ \E coin \in CoinsWithId, accept \in BOOLEAN : LocalUpdate(Self, coin, accept)
    \/ \E coinId \in Ids, accept \in BOOLEAN : LocalDelete(Self, coinId, accept)
    \/ \E now \in 1 .. MaxClock : OtherTabAdd(now)
    \/ \E ok \in BOOLEAN : RemoteGetAll(ok)
    \/ \E coin \in CoinInputs, newId \in Ids, ok \in BOOLEAN :
          RemoteAdd(coin, newId, ok)
    \/ \E coin \in CoinsWithId, ok \in BOOLEAN : RemoteUpdate(coin, ok)
    \/ \E coinId \in Ids, ok \in BOOLEAN : RemoteDelete(coinId, ok)

Spec == Init /\ [][NextStore]_vars

InitLocal == Init /\ strategy = "local"

(* Local strategy: subscribers, their polling, and adds by this tab.       *)
NextSame ==
    \/ \E cb \in Callbacks : LocalSubscribe(cb)
    \/ \E h \in 1 .. MaxSubs : LocalPoll(h)
    \/ \E coin \in CoinInputs, now \in 1 .. MaxClock :
          LocalAdd(Self, coin, now, TRUE)

(* Local strategy: subscribers, their polling, listAll, and adds by        *)
(* another tab.                                                            *)
NextOther ==
    \/ \E cb \in Callbacks : LocalSubscribe(cb)
    \/ \E h \in 1 .. MaxSubs : LocalPoll(h)
    \/ LocalGetAll(Self)
    \/ \E now \in 1 .. MaxClock : OtherTabAdd(now)

\* setInterval keeps firing the callback of every interval not cleared
PollsKeepFiring == \A h \in 1 .. MaxSubs : WF_vars(LocalPoll(h))

SpecSame == InitLocal /\ [][NextSame]_vars
SpecOther == InitLocal /\ [][NextOther]_vars
LiveSame == SpecSame /\ PollsKeepFiring
LiveOther == SpecOther /\ PollsKeepFiring

(* Local strategy in a browser tab: the mutating calls of one tab, one      *)
(* after another.  addCoin, updateCoin and deleteCoin are async functions  *)
(* without an await: each runs to its end when it is called, so no step    *)
(* of another call of the tab comes between its read and its write.        *)
InitBrowser == InitLocal /\ HasWindow(slot)

NextCalls ==
    \/ \E coin \in CoinInputs, now \in 1 .. MaxClock, accept \in BOOLEAN :
          LocalAdd(Self, coin, now, accept)
    \/ \E coin \in CoinsWithId, accept \in BOOLEAN : LocalUpdate(Self, coin, accept)
    \/ \E coinId \in Ids, accept \in BOOLEAN : LocalDelete(Self, coinId, accept)

\* the user keeps using the tab: calls keep being made
CallsKeepComing == WF_vars(\E coinId \in Ids : LocalDelete(Self, coinId, TRUE))

SpecCalls == InitBrowser /\ [][NextCalls]_vars
LiveCalls == SpecCalls /\ CallsKeepComing

(* Local strategy in a browser tab: subscribers, their polling, and the    *)
(* store's calls of the tab, served or refused.                            *)
NextPoll ==
    \/ LocalSubscribe("Summary")
    \/ \E h \in 1 .. MaxSubs : LocalPoll(h)
    \/ LocalGetAll(Self)
    \/ \E now \in 1 .. MaxClock, accept \in BOOLEAN :
          LocalAdd(Self, Graded, now, accept)
    \/ \E accept \in BOOLEAN : LocalUpdate(Self, WithField(Sold, "id", 0), accept)
    \/ \E coinId \in Ids, accept \in BOOLEAN : LocalDelete(Self, coinId, accept)

SpecPoll == InitBrowser /\ [][NextPoll]_vars

(* Local strategy, two browser tabs sharing the slot: this tab has a       *)
(* subscriber whose interval fires, and adds, updates and deletes coins,   *)
(* while the other tab adds coins.                                         *)
NextTabs ==
    \/ LocalSubscribe("Dashboard")
    \/ \E h \in 1 .. MaxSubs : LocalPoll(h)
    \/ \E now \in 1 .. MaxClock : OtherTabAdd(now)
    \/ \E now \in 1 .. MaxClock : LocalAdd(Self, Graded, now, TRUE)
    \/ LocalUpdate(Self, WithField(Sold, "id", 0), TRUE)
    \/ \E coinId \in Ids : LocalDelete(Self, coinId, TRUE)

SpecTabs == InitBrowser /\ [][NextTabs]_vars

(* Both strategies: subscribing, unsubscribing, notification, and changes  *)
(* of the store.                                                           *)
NextNotify ==
    \/ \E cb \in Callbacks : LocalSubscribe(cb)
    \/ \E h \in 1 .. MaxSubs : LocalPoll(h)
    \/ \E h \in 0 .. MaxSubs : LocalUnsubscribe(h)
    \/ \E now \in 1 .. MaxClock : OtherTabAdd(now)
    \/ \E cb \in Callbacks : RemoteSubscribe(cb)
    \/ \E h \in 1 .. MaxSubs : RemoteSnapshot(h)
    \/ \E h \in 0 .. MaxSubs : RemoteUnsubscribe(h)
    \/ \E newId \in Ids : RemoteAdd(Graded, newId, TRUE)
    \/ \E coinId \in Ids : RemoteDelete(coinId, TRUE)

SpecNotify == Init /\ [][NextNotify]_vars

(* The dashboard over either strategy: it loads and subscribes, coins are *)
(* added, and the user marks coins as sold.                                *)
NextDash ==
    \/ \E ok \in BOOLEAN : RefreshData(ok)
    \/ LocalSubscribe("Dashboard")
    \/ \E h \in 1 .. MaxSubs : LocalPoll(h)
    \/ \E now \in 1 .. MaxClock : LocalAdd(Self, Graded, now, TRUE)
    \/ \E now \in 1 .. MaxClock : OtherTabAdd(now)
    \/ RemoteSubscribe("Dashboard")
    \/ \E h \in 1 .. MaxSubs : RemoteSnapshot(h)
    \/ \E newId \in Ids : RemoteAdd(Graded, newId, TRUE)
    \/ \E coinId \in Ids, soldPrice \in SoldPrices : OnMarkAsSold(coinId, soldPrice)

SpecDash == Init /\ [][NextDash]_vars

(* The components mount and unmount in any order while the store changes  *)
(* and notifications are delivered.                                        *)
NextMount ==
    \/ \E cb \in Callbacks : Mount(cb)
    \/ \E cb \in Callbacks : Unmount(cb)
    \/ \E h \in 1 .. MaxSubs : LocalPoll(h)
    \/ \E now \in 1 .. MaxClock : OtherTabAdd(now)
    \/ \E h \in 1 .. MaxSubs : RemoteSnapshot(h)
    \/ \E newId \in Ids : RemoteAdd(Graded, newId, TRUE)

SpecMount == Init /\ [][NextMount]_vars

(* PortfolioSummary rendering the coin list and cash reserves it is       *)
(* given.  The coin list is any the store can have handed to the           *)
(* dashboard: coins held and coins sold, with prices and values from 0 up. *)
Valued(cv, r) == [Graded EXCEPT !.currentValue = cv, !.roi = r]
Priced(pp) == [WithoutField(Sold, "soldPrice") EXCEPT !.purchasePrice = pp]

SummaryCoins ==
    {Valued(cv, r) : cv \in {0, 1, 2}, r \in {0, 50}}
    \cup {Priced(pp) : pp \in {0, 1, 2}}
    \cup {WithField(Priced(pp), "soldPrice", sp) : pp \in {0, 1, 2}, sp \in {0, 3}}

CoinLists ==
    UNION {{[i \in 1 .. n |-> WithField(f[i], "id", i)] :
               f \in [1 .. n -> SummaryCoins]} : n \in 0 .. MaxCoins}

InitSummary ==
    /\ strategy = "local"
    /\ slot = Absent
    /\ mockDatabase = [p \in Procs |-> <<>>]
    /\ clock = 1
    /\ docs = NoDocs
    /\ dirty = {}
    /\ subs = <<>>
    /\ tock = FALSE
    /\ coins \in CoinLists
    /\ fired = <<>>
    /\ last = [op |-> "none", p |-> Self, id |-> 0, served |-> TRUE,
               fault |-> FALSE, ret |-> <<>>]
    /\ mounted = [cb \in Callbacks |-> 0]
    /\ cashReserves = InitialCash
    /\ summary = NoSummary
    /\ aliased = FALSE
    /\ activeTab = "performance"

NextSummary ==
    \/ RenderSummary
    \/ \E newAmount \in CashAmounts : HandleUpdateCashReserves(newAmount)

SpecSummary == InitSummary /\ [][NextSummary]_vars

(* The dashboard over either strategy with the store's calls: coins are   *)
(* added, updated, marked sold or unsold, and deleted.  Notification is    *)
(* the remote snapshot; a local poll hands over what the slot decodes to.  *)
NextSell ==
    \/ \E ok \in BOOLEAN : RefreshData(ok)
    \/ \E now \in 1 .. MaxClock : LocalAdd(Self, Graded, now, TRUE)
    \/ \E coin \in CoinsWithId : LocalUpdate(Self, coin, TRUE)
    \/ LocalDelete(Self, 0, TRUE)
    \/ RemoteSubscribe("Dashboard")
    \/ \E h \in 1 .. MaxSubs : RemoteSnapshot(h)
    \/ \E newId \in Ids : RemoteAdd(Graded, newId, TRUE)
    \/ \E coin \in CoinsWithId : RemoteUpdate(coin, TRUE)
    \/ RemoteDelete(0, TRUE)
    \/ \E coinId \in Ids, soldPrice \in SoldPrices : OnMarkAsSold(coinId, soldPrice)
    \/ \E coinId \in Ids, isSold \in BOOLEAN, soldPrice \in SoldPrices :
          HandleMarkAsSold(coinId, isSold, soldPrice, TRUE)

SpecSell == Init /\ [][NextSell]_vars

(* The dashboard's add and delete handlers over either strategy, served   *)
(* or refused by the store: the page mounts, refreshes and is notified,    *)
(* the user selects a tab, submits the upload form, deletes a listed coin. *)
NextHandlers ==
    \/ Mount("Dashboard")
    \/ \E ok \in BOOLEAN : RefreshData(ok)
    \/ \E h \in 1 .. MaxSubs : LocalPoll(h)
    \/ \E h \in 1 .. MaxSubs : RemoteSnapshot(h)
    \/ \E tab \in {"holdings", "settings"} : SelectTab(tab)
    \/ \E coin \in NewCoinInputs, newId \in Ids, ok \in BOOLEAN :
          HandleNewCoin(coin, newId, ok)
    \/ \E coinId \in Ids, ok \in BOOLEAN : HandleDeleteCoin(coinId, ok)

SpecHandlers == Init /\ [][NextHandlers]_vars

(* The dashboard with its cash reserve: coins are added, marked sold,      *)
(* updated and deleted, the list is refreshed and notified, and the user   *)
(* confirms the cash reserves dialog with any entry.                       *)
NextCash ==
    \/ Mount("Dashboard")
    \/ RefreshData(TRUE)
    \/ \E h \in 1 .. MaxSubs : LocalPoll(h)
    \/ \E h \in 1 .. MaxSubs : RemoteSnapshot(h)
    \/ \E tab \in {"holdings", "settings"} : SelectTab(tab)
    \/ \E newId \in Ids : HandleNewCoin(Graded, newId, TRUE)
    \/ \E coinId \in Ids : HandleDeleteCoin(coinId, TRUE)
    \/ \E coinId \in Ids, soldPrice \in SoldPrices : OnMarkAsSold(coinId, soldPrice)
    \/ \E coinId \in Ids, isSold \in BOOLEAN, soldPrice \in SoldPrices :
          HandleMarkAsSold(coinId, isSold, soldPrice, TRUE)
    \/ \E entry \in CashEntries : SubmitCashReserves(entry)

SpecCash == Init /\ [][NextCash]_vars

----------------------------------------------------------------------------
(* Properties of the store's calls *)

Distinct(cs) == \A i, j \in DOMAIN cs : i # j => cs[i].id # cs[j].id

\* the coin set the backend holds, as listAll decodes it
Persisted ==
    IF strategy = "local" THEN InitializeDatabase(slot) ELSE ConvertAll(docs)

\* C3: add assigns a fresh identifier, so that after any sequence of calls
\* the stored records have pairwise distinct identifiers.
C3_FreshIdentifiers == Distinct(Persisted)

\* a sequence of coins holds exactly what the collection's documents hold
SameAsDocs(cs, ds) ==
    /\ Distinct(cs)
    /\ IdsOf(cs) = DOMAIN ds
    /\ \A i \in DOMAIN cs :
          LET c == cs[i]
              d == ds[c.id]
          IN  /\ \A f \in {"name", "purchasePrice", "currentValue", "roi", "isSold"} :
                    c[f] = d[f]
              /\ \A f \in {"grade", "soldPrice"} :
                    /\ Has(c, f) <=> Has(d, f)
                    /\ Has(c, f) => c[f] = d[f]
              /\ Has(c, "soldDate") <=> d.soldDate # Null
              /\ Has(c, "soldDate") => c.soldDate = DateObj(d.soldDate.t)

\* C5: listAll never throws; on a retrieval fault (remote read refused; local
\* key absent or text unparsable) it returns the empty sequence, and
\* otherwise exactly the persisted coin set.
C5_ListAllNeverThrows ==
    last.op = "getAll" =>
        /\ ~last.fault
        /\ strategy = "local" =>
              last.ret = IF slot.kind = "json" THEN slot.val ELSE <<>>
        /\ strategy = "remote" =>
              IF last.served THEN SameAsDocs(last.ret, docs) ELSE last.ret = <<>>

\* a remote read was refused while the collection holds a record, and
\* listAll returned the empty sequence
C5_Witness ==
    /\ last.op = "getAll"
    /\ strategy = "remote"
    /\ ~last.served
    /\ docs # NoDocs
    /\ last.ret = <<>>

\* the records of cs with an identifier other than id
Others(cs, id) == {cs[i] : i \in {j \in DOMAIN cs : cs[j].id # id}}

\* the record of cs with the identifier of coin is coin, field for field
\* (as serialized when the records are the slot's)
HoldsExactly(cs, coin) ==
    /\ coin.id \in IdsOf(cs)
    /\ \A i \in DOMAIN cs : cs[i].id = coin.id => cs[i] = coin

\* C6: update(coin) with an existing identifier replaces that record in
\* full: the stored record then equals the input field for field, and the
\* other records the store holds are unchanged; in both strategies.
C6_UpdateReplacesRecord ==
    [][\A coin \in CoinsWithId :
          /\ (/\ LocalUpdate(Self, coin, TRUE)
              /\ coin.id \in IdsOf(mockDatabase[Self]))
                => /\ HoldsExactly(mockDatabase'[Self], coin)
                   /\ HoldsExactly(Persisted', StringifyCoin(coin))
                   /\ Others(mockDatabase'[Self], coin.id)
                         = Others(mockDatabase[Self], coin.id)
          /\ (/\ RemoteUpdate(coin, TRUE)
              /\ coin.id \in DOMAIN docs)
                => /\ HoldsExactly(Persisted', coin)
                   /\ Others(Persisted', coin.id) = Others(Persisted, coin.id)
      ]_vars

\* C7: local strategy, update(coin) whose identifier no held record has:
\* the array and the slot stay as they are, nothing is thrown, whatever the
\* storage would have answered, and the input is returned.
C7_UpdateAbsentIsNoOp ==
    [][\A coin \in CoinsWithId, accept \in BOOLEAN :
          (/\ last'.op = "update"
           /\ coin.id \notin IdsOf(mockDatabase[Self])
           /\ LocalUpdate(Self, coin, accept))
             => /\ mockDatabase' = mockDatabase
                /\ slot' = slot
                /\ ~last'.fault
                /\ last'.ret = <<coin>>
      ]_vars

\* an update named an identifier the tab does not hold, while the tab holds
\* a record and the slot holds one
C7_Witness ==
    /\ strategy = "local"
    /\ last.op = "update"
    /\ last.p = Self
    /\ last.id \notin IdsOf(mockDatabase[Self])
    /\ mockDatabase[Self] # <<>>
    /\ Persisted # <<>>
    /\ last.ret # <<>>

\* C8: delete is idempotent: a second delete(id) leaves the store as the
\* first left it and throws nothing, deleting an identifier not present
\* throws nothing, and the persisted records with other identifiers stay.
\* Stated for a delete the storage or backend serves, issued when the
\* call before it was served too.
C8_DeleteIdempotent ==
    [][\A coinId \in Ids :
          /\ (LocalDelete(Self, coinId, TRUE) /\ last.served)
                => /\ ~last'.fault
                   /\ coinId \notin IdsOf(Persisted')
                   /\ Others(Persisted, coinId) \subseteq Others(Persisted', coinId)
                   /\ LET again == DeleteCoinLocal(mockDatabase'[Self], slot',
                                                   coinId, TRUE)
                      IN  /\ again.db = mockDatabase'[Self]
                          /\ again.slot = slot'
                          /\ ~again.fault
          /\ RemoteDelete(coinId, TRUE)
                => /\ ~last'.fault
                   /\ coinId \notin IdsOf(Persisted')
                   /\ Others(Persisted', coinId) = Others(Persisted, coinId)
                   /\ LET again == DeleteCoinRemote(docs', coinId, TRUE)
                      IN  again.docs = docs' /\ ~again.fault
      ]_vars

\* C13: local strategy round trip: when the slot holds what saving the
\* tab's coin set stored, listAll returns a set equal to that coin set field
\* for field: same fields present, same values, a sold date still a date.
C13_RoundTrip ==
    [][(/\ LocalGetAll(Self)
        /\ slot.kind = "json"
        /\ slot = SaveToLocalStorage(slot, mockDatabase[Self], TRUE))
          => last'.ret = mockDatabase[Self]
      ]_vars

\* C19: add never reports success for a record that was not stored: when
\* add returns a record without throwing, the persisted store holds that
\* record (compared as serialized); a write that is refused or has no
\* backend to go to makes add throw.
C19_AddStoresOrThrows ==
    last.op = "add" =>
        /\ last.fault <=> last.ret = <<>>
        /\ ~last.fault =>
              \E i \in DOMAIN Persisted :
                  StringifyCoin(Persisted[i]) = StringifyCoin(last.ret[1])

\* the persisted set cs shows the effect of the completed call c: an added
\* record is there, a deleted identifier is not, an updated record is there
\* as given (or the identifier is absent: the update was the no-op of C7)
Visible(c, cs) ==
    CASE c.op = "add" ->
            \E i \in DOMAIN cs : cs[i] = StringifyCoin(c.ret[1])
      [] c.op = "delete" -> c.id \notin IdsOf(cs)
      [] c.op = "update" ->
            \/ c.id \notin IdsOf(cs)
            \/ \E i \in DOMAIN cs : cs[i] = StringifyCoin(c.ret[1])
      [] OTHER -> TRUE

\* this step is a mutating call of the tab that completes, made right after
\* another mutating call of the tab completed; the two do not name the same
\* identifier (unless both are adds)
SecondCall ==
    /\ last.op \in {"add", "update", "delete"}
    /\ last.p = Self
    /\ ~last.fault
    /\ \/ \E coin \in CoinInputs, now \in 1 .. MaxClock :
              LocalAdd(Self, coin, now, TRUE)
       \/ \E coin \in CoinsWithId : LocalUpdate(Self, coin, TRUE)
       \/ \E coinId \in Ids : LocalDelete(Self, coinId, TRUE)
    /\ last'.id # last.id \/ (last.op = "add" /\ last'.op = "add")

\* the later call's write carries both effects: it does not undo what the
\* earlier call left in the persisted set, and what it writes shows its own
BothReflected ==
    /\ Visible(last, Persisted) => Visible(last, Persisted')
    /\ slot' # slot => Visible(last', Persisted')

LostUpdate == SecondCall /\ ~BothReflected

\* C20 as stated: a state is reached in which two mutating calls of the
\* same tab complete and the later one's write leaves the persisted set
\* reflecting only one of them (a lost update).
C20_LostUpdateOccurs == <>(ENABLED <<LostUpdate>>_vars)

\* C20 amended: the mutating calls of one tab never lose each other's
\* effect: when two of them complete one after the other, the later call's
\* write keeps the earlier call's effect and shows its own.
C20_NoLostUpdate == [][SecondCall => BothReflected]_vars

\* the tab added a coin and then deleted the record kept from an earlier
\* session: the slot holds the added coin alone
C20_Witness ==
    /\ last.op = "delete" /\ last.p = Self /\ ~last.fault /\ last.id = 0
    /\ Len(mockDatabase[Self]) = 1
    /\ IdsOf(Persisted) = {1}

\* this step is an add, update or delete of this tab
SelfMutates ==
    \/ \E coin \in CoinInputs, now \in 1 .. MaxClock, accept \in BOOLEAN :
          LocalAdd(Self, coin, now, accept)
    \/ \E coin \in CoinsWithId, accept \in BOOLEAN : LocalUpdate(Self, coin, accept)
    \/ \E coinId \in Ids, accept \in BOOLEAN : LocalDelete(Self, coinId, accept)

Held(coin, cs) == \E i \in DOMAIN cs : cs[i] = coin

\* C24: local strategy, two tabs sharing the slot: a coin the other tab
\* holds and the slot holds is still in the slot after this tab's add,
\* update or delete of a coin with another identifier.
C24_OtherTabsCoinKept ==
    [][SelfMutates =>
          \A i \in DOMAIN mockDatabase["tab2"] :
              LET coin == StringifyCoin(mockDatabase["tab2"][i])
              IN  (coin.id # last'.id /\ Held(coin, Persisted))
                     => Held(coin, Persisted')
      ]_vars

\* this step is an update or delete of this tab that names another
\* identifier than the call before it
MutatesAnother ==
    /\ \/ \E coin \in CoinsWithId, accept \in BOOLEAN : LocalUpdate(Self, coin, accept)
       \/ \E coinId \in Ids, accept \in BOOLEAN : LocalDelete(Self, coinId, accept)
    /\ last'.id # last.id

\* C25: local strategy: after an add of this tab that failed because the
\* slot refused the write, while the slot holds no record with the failed
\* coin's identifier: an update or delete of another coin does not put such
\* a record into the slot, and no callback invoked by the next step is
\* handed one.
C25_FailedAddLeavesNoTrace ==
    [][(/\ last.op = "add" /\ last.p = Self /\ last.fault
        /\ last.id \notin IdsOf(Persisted))
          => /\ MutatesAnother => last.id \notin IdsOf(Persisted')
             /\ \A k \in DOMAIN fired' : last.id \notin IdsOf(fired'[k].coins)
      ]_vars

----------------------------------------------------------------------------
(* Properties of the notifications *)

\* the last step invoked the callback of subscription h with a coin set
\* that the predicate accepts
InvokedWith(h, Accepts(_)) ==
    \E k \in DOMAIN fired : fired[k].h = h /\ Accepts(fired[k].coins)

IsLive(h) == h \in DOMAIN subs /\ subs[h].live

\* C1: local strategy: a subscriber is registered and stays so, then add
\* completes in the same tab; with the timer firing fairly the callback is
\* eventually invoked again, with a coin set that holds the new record
\* (unless the record is removed from the store before that).
C1_AddReachesSubscriber ==
    \A h \in 1 .. MaxSubs, i \in Ids :
        (/\ IsLive(h)
         /\ last.op = "add" /\ last.p = Self /\ ~last.fault /\ last.id = i)
        ~> (\/ ~IsLive(h)
            \/ i \notin IdsOf(Persisted)
            \/ LET HoldsNew(cs) == i \in IdsOf(cs) IN InvokedWith(h, HoldsNew))

\* C2: a change of the persisted coin set, here one written by another tab,
\* reaches every registered subscriber: each is eventually invoked with the
\* coin set persisted at that moment (or is unsubscribed first).
C2_ChangeReachesAll ==
    \A h \in 1 .. MaxSubs :
        (/\ IsLive(h)
         /\ last.op \in {"add", "update", "delete"} /\ last.p # Self
         /\ ~last.fault)
        ~> (\/ ~IsLive(h)
            \/ LET IsCurrent(cs) == Stringify(cs) = Stringify(Persisted)
               IN  InvokedWith(h, IsCurrent))

\* C12: local strategy: a polling tick invokes the subscriber's callback
\* only if the slot's text differs from what it was when that callback was
\* last invoked: while the slot is unchanged since then, no tick invokes it.
C12_NoTickWithoutChange ==
    [][\A h \in 1 .. MaxSubs :
          (LocalPoll(h) /\ slot = subs[h].seen) => fired' = <<>>
      ]_vars

\* C9: subscribe invokes the callback exactly once before it returns, with
\* the coin set persisted at that moment (local strategy: what the slot
\* decodes to, compared as serialized).
C9_InitialCallback ==
    last.op = "subscribe" =>
        /\ Len(fired) = 1
        /\ fired[1].h = last.id
        /\ Stringify(fired[1].coins) = Stringify(Persisted)

\* C10: once unsubscribe was called with a handle, no step invokes that
\* handle's callback; unsubscribe throws nothing and leaves the other
\* subscriptions as they are, and on an empty or already cancelled handle
\* it changes nothing.
C10_UnsubscribeStops ==
    [][/\ \A k \in DOMAIN fired' :
             fired'[k].h \in DOMAIN subs => ~subs[fired'[k].h].cancelled
       /\ \A h \in 0 .. MaxSubs :
             (LocalUnsubscribe(h) \/ RemoteUnsubscribe(h))
                => /\ ~last'.fault
                   /\ \A g \in DOMAIN subs \ {h} : subs'[g] = subs[g]
                   /\ (h = 0 \/ subs[h].cancelled)
                         => UNCHANGED <<subs, slot, mockDatabase, docs, dirty, coins>>
      ]_vars

\* a handle is cancelled, the store changed afterwards, and the last step
\* delivered the change to another subscription
C10_Witness ==
    \E h, g \in DOMAIN subs :
        /\ subs[h].cancelled
        /\ subs[g].live
        /\ last.op \in {"poll", "snapshot"}
        /\ fired # <<>>
        /\ fired[1].h = g
        /\ fired[1].coins # <<>>

\* the components mounted now
Mounted == {cb \in Callbacks : mounted[cb] # 0}

\* the intervals that still fire (local strategy)
ActiveTimers == IF strategy = "local" THEN LiveSubs ELSE {}

\* C11: the polling timer is released on every teardown: the timers that
\* are active are exactly those of the mounted subscribing components, one
\* each, and once all components have unmounted no timer (and no remote
\* listener) is left.
C11_TimersReleased ==
    /\ strategy = "local" =>
          /\ Cardinality(ActiveTimers) = Cardinality(Mounted)
          /\ ActiveTimers = {mounted[cb] : cb \in Mounted}
    /\ Mounted = {} => LiveSubs = {}

\* both components were mounted and have unmounted, in the local strategy
C11_Witness ==
    /\ strategy = "local"
    /\ last.op = "unmount"
    /\ Mounted = {}
    /\ Len(subs) >= 2
    /\ \A h \in DOMAIN subs : subs[h].cancelled

----------------------------------------------------------------------------
(* Properties of the dashboard *)

WellDisposed(c) ==
    IF c.isSold THEN Has(c, "soldPrice") /\ Has(c, "soldDate")
    ELSE ~Has(c, "soldPrice") /\ ~Has(c, "soldDate")

AllWellDisposed(cs) == \A i \in DOMAIN cs : WellDisposed(cs[i])

\* C14: every coin the store holds (persisted, and in the tab's array) and
\* every coin of the dashboard's list has soldPrice and soldDate defined
\* when it is sold and has neither when it is not.
C14_DispositionInvariant ==
    /\ AllWellDisposed(Persisted)
    /\ AllWellDisposed(mockDatabase[Self])
    /\ AllWellDisposed(coins)

\* C4: when the dashboard's mark-as-sold command has completed for a coin at
\* a price, the store's record with that identifier is sold at that price.
C4_SellReachesStore ==
    last.op = "markSold" =>
        \E i \in DOMAIN Persisted :
            /\ Persisted[i].id = last.id
            /\ Persisted[i].isSold
            /\ Has(Persisted[i], "soldPrice")
            /\ Persisted[i].soldPrice = last.ret[1].soldPrice

\* how many entries of cs carry the identifier
Occurrences(cs, id) == Cardinality({i \in DOMAIN cs : cs[i].id = id})

\* C22: the dashboard's coin list never holds two entries with the same
\* identifier; in particular, when handleNewCoin has completed with the
\* store's add served in the local strategy, the new coin is in the list
\* exactly once.
C22_PresentedOnce ==
    /\ Distinct(coins)
    /\ (last.op = "handleNewCoin" /\ last.served /\ strategy = "local")
          => Occurrences(coins, last.id) = 1

\* this step is handleNewCoin or handleDeleteCoin, run to its end
HandlerStep ==
    \/ \E coin \in NewCoinInputs, newId \in Ids, ok \in BOOLEAN :
          HandleNewCoin(coin, newId, ok)
    \/ \E coinId \in Ids, ok \in BOOLEAN : HandleDeleteCoin(coinId, ok)

\* C23: when the store's add or delete fails, handleNewCoin and
\* handleDeleteCoin leave the dashboard's coin list and the active tab as
\* they were, have issued the store call once, and let no fault out.
C23_FailureContained ==
    [][(HandlerStep /\ ~last'.served)
          => /\ coins' = coins
             /\ activeTab' = activeTab
             /\ last'.calls = 1
             /\ ~last'.fault
      ]_vars

\* the entries the dialog is to turn down: not a number, or below 0
Refusable(entry) == entry.kind # "number" \/ entry.n < 0

\* C21: the cash reserve is never below 0 and changes only when the cash
\* reserves dialog is confirmed: a step that changes it is that action, the
\* action leaves it as it is for an entry that is not a number or is below
\* 0 and sets it to the number entered otherwise, and no operation on coins
\* (add, update, mark sold, delete, refresh, notification) changes it.
C21_CashReserve ==
    [][/\ cashReserves >= 0
       /\ cashReserves' >= 0
       /\ cashReserves' # cashReserves =>
              \E entry \in CashEntries : SubmitCashReserves(entry)
       /\ \A entry \in CashEntries :
              SubmitCashReserves(entry) =>
                  cashReserves' = IF Refusable(entry) THEN cashReserves
                                  ELSE entry.n
      ]_vars

\* the dialog was confirmed with an entry it turned down, after the reserve
\* had been changed and while the dashboard lists a sold coin
C21_Witness ==
    /\ last.op = "updateCash"
    /\ ~last.served
    /\ cashReserves = 7
    /\ \E i \in DOMAIN coins : coins[i].isSold

----------------------------------------------------------------------------
(* Properties of the portfolio summary.  The sums the claims name are      *)
(* taken over integers, apart from what the render computed.               *)

RECURSIVE IntSum(_)
IntSum(xs) == IF xs = <<>> THEN 0 ELSE Head(xs) + IntSum(Tail(xs))

\* the sold partition: sold, with a sold price defined (0 included)
InSoldPartition(coin) == coin.isSold /\ Has(coin, "soldPrice")

ActiveOf(cs) == SelectSeq(cs, IsActive)
SoldOf(cs) == SelectSeq(cs, InSoldPartition)

ActiveTotal(cs) == IntSum([i \in DOMAIN ActiveOf(cs) |-> ActiveOf(cs)[i].currentValue])

\* C15: totalValue is the cash reserve plus the current value of the coins
\* not sold plus soldPrice - purchasePrice of the coins sold with a sold
\* price defined; each such coin, also one sold at 0, is in the sold
\* partition, and no sold coin counts in the active value.
C15_TotalValue ==
    summary.rendered =>
        LET cs == summary.coins
            sold == SoldOf(cs)
        IN  /\ summary.soldCoins = sold
            /\ summary.activeCoinsValue = Num(ActiveTotal(cs))
            /\ summary.totalValue =
                  Num(summary.cashReserves + ActiveTotal(cs)
                      + IntSum([i \in DOMAIN sold |->
                                   sold[i].soldPrice - sold[i].purchasePrice]))

\* C16: activeROI is 0 when there is no active coin or the active coins'
\* current values sum to 0, and otherwise the sum of roi * currentValue over
\* the sum of currentValue; activeROI and totalROI are always numbers.
C16_ActiveROIDefined ==
    summary.rendered =>
        LET active == ActiveOf(summary.coins)
            weight == ActiveTotal(summary.coins)
            weighted == IntSum([i \in DOMAIN active |->
                                   active[i].roi * active[i].currentValue])
        IN  /\ IsNumber(summary.activeCoinsROI)
            /\ IsNumber(summary.totalROI)
            /\ summary.activeCoinsROI =
                  IF weight = 0 THEN Num(0) ELSE Fin(weighted, weight)

\* a coin's weight and its return in the single pass
Weight(coin) ==
    IF IsActive(coin) THEN coin.currentValue
    ELSE IF InSoldPartition(coin) THEN coin.purchasePrice
    ELSE 0

PerCoinROI(coin) ==
    IF IsActive(coin) THEN Num(coin.roi)
    ELSE IF InSoldPartition(coin)
         THEN NumMul(NumDiv(Num(coin.soldPrice - coin.purchasePrice),
                            Num(coin.purchasePrice)),
                     Num(100))
    ELSE Num(0)

\* the weighted average of the per-coin returns over all coins, in one pass
SinglePassROI(cs) ==
    LET total == IntSum([i \in DOMAIN cs |-> Weight(cs[i])])
    IN  IF total > 0
        THEN NumDiv(NumSum([i \in DOMAIN cs |->
                               NumMul(PerCoinROI(cs[i]), Num(Weight(cs[i])))]),
                    Num(total))
        ELSE Num(0)

\* C17: totalROI as the render composes it (per coin, then active and sold,
\* then overall) equals the single-pass weighted average over all coins,
\* active coins weighted by currentValue, sold coins by purchasePrice.
C17_AggregationConsistent ==
    summary.rendered => summary.totalROI = SinglePassROI(summary.coins)

\* C18: for the empty coin list the three returns are 0 and totalValue is
\* the cash reserve.
C18_EmptySet ==
    (summary.rendered /\ summary.coins = <<>>) =>
        /\ summary.activeCoinsROI = Num(0)
        /\ summary.soldCoinsROI = Num(0)
        /\ summary.totalROI = Num(0)
        /\ summary.totalValue = Num(summary.cashReserves)

\* the summary rendered the empty list after the cash reserve was changed
C18_Witness ==
    /\ summary.rendered
    /\ summary.coins = <<>>
    /\ summary.cashReserves = 7

====
